---- MODULE Spec2Model ----
(***************************************************************************)
(* The live backend-rebuild pipeline of server/index.ts: the loader that   *)
(* bundles server/backend.ts into dist/server/backend.dist.<ts>.cjs,       *)
(* imports it and repopulates backendRouter.stack, the cleanup pass over   *)
(* the bundles, the chokidar callback that starts rebuilds, and the main   *)
(* initialization function that opens the listener.                        *)
(*                                                                         *)
(* One action is one macrotask of the Node event loop: a continuation      *)
(* after an await runs to its next await (or to the end) without a request *)
(* handler or another callback running in between.                         *)
(*                                                                         *)
(* The parts of the program that do not take part in the pipeline (the     *)
(* Vite dev-server setup of server/vite.ts, the middleware chain a request *)
(* goes down, the scripts, the database retry wrapper) have their own      *)
(* variables and their own specifications further down; the pipeline       *)
(* leaves them alone.                                                      *)
(***************************************************************************)
EXTENDS Integers, Sequences, FiniteSets, TLC

VARIABLES
    alive,      \* the process has not terminated
    env,        \* app.get("env")
    main,       \* position of the main initialization function
    listening,  \* app.listen has opened the listener
    clock,      \* the last value Date.now() returned, in distinguishable instants
    disk,       \* the names of the files in dist/server
    stack,      \* backendRouter.stack: a sequence of [route, by]
    rebuilds,   \* the loadBackend calls made so far, each with its position
    lastEvent,  \* the event chokidar delivered in the last step, if any, and
                \* whether the callback called loadBackend
    lastResp,   \* the response the listener gave in the last step, if any
    currentViteServer,  \* vite.ts: the module variable, 0 for null
    viteServers,        \* the dev servers createViteServer has made, each
                        \* "open", "closing" or "closed"
    appStack,           \* the middleware of app, in the order of the app.use calls
    setups,             \* the setupVite calls made so far, each with its position
    req,        \* the request app is handling, if any
    at,         \* the layer of appStack the request is at: 0 with no request,
                \* Len(appStack) + 1 at Express's final handler, -1 when the
                \* response has finished
    err,        \* the error next(err) was called with, "none" without
    res,        \* the response object: what has been written, res.json, and
                \* the logger's capturedJsonResponse
    publish,    \* the publish script: its environment, position and exit code
    envFile,    \* the lines of the .env file
    authRuns,   \* the runs of the auth-secret script so far, each with its outcome
    logged,     \* the logging middleware's finish listener: the request it
                \* ran for and the line it passed to log()
    retry,      \* lib/db.ts: the retryOperation call in progress, with its
                \* arguments, its position and what it has done so far
    themes      \* the theme manager: the files of client/themes, the theme
                \* import of client/index.css, and the last command run

pipeline == <<alive, env, main, listening, clock, disk, stack, rebuilds,
              lastEvent, lastResp>>

viteVars == <<currentViteServer, viteServers, appStack, setups>>

httpVars == <<req, at, err, res>>

scriptVars == <<publish, envFile, authRuns>>

libVars == <<logged, retry, themes>>

\* what the rebuild pipeline never touches
others == <<viteVars, httpVars, scriptVars, libVars>>

\* what setupVite, a request, and the scripts never touch
notVite == <<pipeline, httpVars, scriptVars, libVars>>
notHttp == <<pipeline, viteVars, scriptVars, libVars>>
notScripts == <<pipeline, viteVars, httpVars, libVars>>

\* what the finish listener of the logger, retryOperation, and the theme
\* manager never touch
notLogged == <<pipeline, viteVars, httpVars, scriptVars, retry, themes>>
notRetry == <<pipeline, viteVars, httpVars, scriptVars, logged, themes>>
notThemes == <<pipeline, viteVars, httpVars, scriptVars, logged, retry>>

vars == <<pipeline, others>>

----------------------------------------------------------------------------
(* Bounds *)

\* loadBackend calls in one run, the initial load included
MaxRebuilds == 3

\* the greatest maxRetries retryOperation is called with; the Prisma
\* middleware of lib/db.ts passes 3
MaxRetries == 3

----------------------------------------------------------------------------
(* Inputs *)

\* What the module of a bundle turns out to be once import() has evaluated it:
\*   "ok"         it exports registerRoutes, which mounts its routes
\*   "noexport"   it does not export registerRoutes
\*   "regthrows"  registerRoutes throws after its first apiRouter.use
\* (a bundle whose evaluation throws gives no module: import() rejects)
ModuleKinds == {"ok", "noexport", "regthrows"}

NoModule == "none"

\* Paths as chokidar reports them, cut into <<directory, base name, extension>>
EntryFile == <<"server/", "index", ".ts">>
WatchedPaths ==
    { EntryFile,
      <<"server/", "backend", ".ts">>,
      <<"server/lib/", "index", ".ts">>,
      <<"shared/", "types", ".ts">>,
      <<"shared/", "data", ".json">> }

EventTypes == {"add", "change", "unlink"}

\* request paths below the /api mount point
ApiPaths == {"/hello", "/does-not-exist"}

----------------------------------------------------------------------------
(* Bundle files *)

\* dist/server/backend.dist.${timestamp}.cjs
Outfile(timestamp) == <<"backend.dist.", timestamp, ".cjs">>

\* file.startsWith("backend.dist.") && file.endsWith(".cjs")
IsBundleFile(file) == file[1] = "backend.dist." /\ file[3] = ".cjs"

\* parseInt(file.match(/backend\.dist\.(\d+)\.cjs$/)?.[1] || "0")
Timestamp(file) == IF file[2] \in Nat THEN file[2] ELSE 0

\* the comparator turned around: oldest first
RECURSIVE SortAscending(_)
SortAscending(files) ==
    IF files = {} THEN << >>
    ELSE LET oldest == CHOOSE f \in files :
                           \A g \in files : Timestamp(f) <= Timestamp(g)
         IN  <<oldest>> \o SortAscending(files \ {oldest})

\* files.sort((a, b) => b.timestamp - a.timestamp): newest first
RECURSIVE SortDescending(_)
SortDescending(files) ==
    IF files = {} THEN << >>
    ELSE LET newest == CHOOSE f \in files :
                           \A g \in files : Timestamp(g) <= Timestamp(f)
         IN  <<newest>> \o SortDescending(files \ {newest})

\* .slice(2)
Slice2(seq) == IF Len(seq) <= 2 THEN << >> ELSE SubSeq(seq, 3, Len(seq))

Range(seq) == { seq[i] : i \in 1..Len(seq) }

\* the files one cleanup pass unlinks, given what readdir listed
FilesToDelete(files) ==
    LET bundleFiles == { f \in files : IsBundleFile(f) }
    IN  IF Cardinality(bundleFiles) > 2
        THEN Range(Slice2(SortDescending(bundleFiles)))
        ELSE {}

----------------------------------------------------------------------------
(* The route table *)

\* the apiRouter.use calls of registerRoutes in server/backend.ts, in order
MountsCatchAllFirst == <<"*", "/hello">>

Mounts == <<"/hello", "*">>

\* what a call of mod.registerRoutes mounts before it returns or throws
Mounted(mod) ==
    CASE mod = "ok" -> Mounts
      [] mod = "regthrows" -> SubSeq(Mounts, 1, 1)
      [] OTHER -> << >>

\* registerRoutes(apiRouter): apiRouter.use appends one layer per mount
RegisterRoutes(router, mod, id) ==
    router \o [i \in 1..Len(Mounted(mod)) |-> [route |-> Mounted(mod)[i], by |-> id]]

\* backend.registerRoutes is defined
HasRegisterRoutes(mod) == mod \in {"ok", "regthrows"}

RegisterThrows(mod) == mod = "regthrows"

\* loadBackend with the clear hoisted above the build: the table is emptied
\* when the rebuild starts
LoadBackendStackClearAtStart(router, phase, mod, id) ==
    CASE phase = "start" -> << >>
      [] phase = "loaded" /\ HasRegisterRoutes(mod) -> RegisterRoutes(<< >>, mod, id)
      [] OTHER -> router

\* loadBackend emptying the table whenever build() has settled
LoadBackendStackClearWhenBuilt(router, phase, mod, id) ==
    CASE phase = "built" -> << >>
      [] phase = "loaded" /\ HasRegisterRoutes(mod) -> RegisterRoutes(<< >>, mod, id)
      [] OTHER -> router

\* loadBackend with the clear above the test for the export
LoadBackendStackClearBeforeTest(router, phase, mod, id) ==
    IF phase = "loaded"
    THEN IF HasRegisterRoutes(mod) THEN RegisterRoutes(<< >>, mod, id) ELSE << >>
    ELSE router

\* loadBackend without the clear: registerRoutes mounts on the old table
LoadBackendStackNoClear(router, phase, mod, id) ==
    IF phase = "loaded" /\ HasRegisterRoutes(mod)
    THEN RegisterRoutes(router, mod, id)
    ELSE router

\* backendRouter.stack after one phase of loadBackend run by rebuild id:
\*   "start"   up to the call of build()
\*   "built"   build() has settled
\*   "loaded"  import() has resolved with module mod: the if of line 129
\*   "failed"  import() has rejected
LoadBackendStack(router, phase, mod, id) ==
    IF phase = "loaded" /\ HasRegisterRoutes(mod)
    THEN RegisterRoutes(<< >>, mod, id)
    ELSE router

\* The answer of the router to GET /api<path>: the first layer that matches
\* answers. /hello is helloRouter (GET "" -> 200), "*" the catch-all 404;
\* a request no layer answers leaves the router ("next").
RECURSIVE Dispatch(_, _)
Dispatch(router, path) ==
    IF router = << >> THEN [status |-> "next", by |-> 0]
    ELSE LET layer == Head(router)
         IN  CASE layer.route = path /\ path = "/hello" ->
                      [status |-> "200 Hello, world!", by |-> layer.by]
               [] layer.route = "*" ->
                      [status |-> "404 API route not found", by |-> layer.by]
               [] OTHER -> Dispatch(Tail(router), path)

Routes(router) == [i \in 1..Len(router) |-> router[i].route]

----------------------------------------------------------------------------
(* Rebuilds *)

Ids == 1..Len(rebuilds)

NewRebuild(timestamp) ==
    [ts |-> timestamp, pc |-> "build", mod |-> NoModule, outcome |-> "none",
     listed |-> {}, pending |-> {}]

\* loadBackend has not settled: it is awaiting build() or import()
InFlight(id) == rebuilds[id].pc \in {"build", "import"}

\* the promise loadBackend returned has settled
Settled(id) == ~InFlight(id)

\* a cleanup pass is scheduled or running
Cleaning(id) == rebuilds[id].pc \in {"immediate", "unlink"}

\* the module import(outfile) has cached for the path of rebuild id, if any
Cached(id) ==
    { rebuilds[k].mod : k \in { j \in Ids : rebuilds[j].ts = rebuilds[id].ts
                                            /\ rebuilds[j].mod # NoModule } }

\* the file at the path of rebuild id exists
OnDisk(id) == Outfile(rebuilds[id].ts) \in disk

\* what the rebuild has written with console.error: line 133, and the catch
\* handlers of lines 168 and 195
ConsoleError(outcome) ==
    CASE outcome = "noExport" -> {"Backend module has no registerRoutes export!"}
      [] outcome \in {"buildFailed", "importFailed", "registerFailed"} ->
             {"Failed to build backend"}
      [] OTHER -> {}

\* the filter without the exclusion of the entry file
ShouldReloadAnyTs(path) == path[Len(path)] = ".ts"

\* path.endsWith(".ts") && path !== "server/index.ts"
ShouldReload(path) == path[Len(path)] = ".ts" /\ path # EntryFile

NoEvent == [type |-> "none", path |-> << >>, reload |-> FALSE]
NoResp == [path |-> "none", status |-> "none", by |-> 0, during |-> FALSE]

\* a step that delivers no event and answers no request
Quiet == lastEvent' = NoEvent /\ lastResp' = NoResp

----------------------------------------------------------------------------
(* The middleware of app *)

Layer(kind, session) == [kind |-> kind, vite |-> session]

\* index.ts, in the order of its app.use calls, before the listener opens
IndexLayers ==
    <<Layer("json", 0), Layer("urlencoded", 0), Layer("logger", 0),
      Layer("/api", 0), Layer("errorHandler", 0)>>

\* vite.ts before any setupVite call
ViteIdle ==
    /\ currentViteServer = 0
    /\ viteServers = << >>
    /\ appStack = IndexLayers
    /\ setups = << >>

\* serveStatic: app.use(express.static(distPath)); app.use("*", sendFile)
UseStatic(layers) == layers \o <<Layer("express.static", 0), Layer("*", 0)>>

NoRequest == [method |-> "none", path |-> << >>, body |-> "none"]

\* a JavaScript value as far as res.json tells values apart
Body(type, content) == [type |-> type, content |-> content, number |-> 0]

NoBody == Body("none", "")

\* no res.json call
NoCall == [status |-> 0, args |-> << >>, throws |-> "no"]

\* a response nothing has been written to, with the res.json of Express
NewResponse ==
    [headersSent |-> FALSE, statusCode |-> 200, body |-> NoBody, writes |-> 0,
     by |-> "none", json |-> "original", captured |-> NoBody, call |-> NoCall]

\* no request is being handled
HttpIdle ==
    /\ req = NoRequest
    /\ at = 0
    /\ err = "none"
    /\ res = NewResponse

\* no script is running, and there is no .env file
ScriptsIdle ==
    /\ publish = [pc |-> "idle"]
    /\ envFile = << >>
    /\ authRuns = << >>

\* nothing has been logged, no retryOperation call is in progress, and the
\* theme manager has not run
Idle == [pc |-> "idle"]

LibIdle ==
    /\ logged = Idle
    /\ retry = Idle
    /\ themes = Idle

----------------------------------------------------------------------------
(* Initial state: the module has been evaluated and the main initialization
   function has called loadBackend() and awaits it *)

Init ==
    /\ alive = TRUE
    /\ env \in {"development", "production"}
    /\ main = "initial-load"
    /\ listening = FALSE
    /\ clock = 1
    /\ disk = {}
    /\ stack = << >>
    /\ rebuilds = <<NewRebuild(1)>>
    /\ lastEvent = NoEvent
    /\ lastResp = NoResp
    /\ ViteIdle
    /\ HttpIdle
    /\ LibIdle
    /\ ScriptsIdle

----------------------------------------------------------------------------
(* Actions *)

\* await build(...) settles: esbuild has compiled the sources as they are
\* now and written outfile, or has rejected
BuildSettles(id, built) ==
    /\ alive
    /\ rebuilds[id].pc = "build"
    /\ IF built
       THEN /\ rebuilds' = [rebuilds EXCEPT ![id].pc = "import"]
            /\ disk' = disk \cup {Outfile(rebuilds[id].ts)}
       ELSE /\ rebuilds' = [rebuilds EXCEPT ![id].pc = "done",
                                            ![id].outcome = "buildFailed"]
            /\ disk' = disk
    /\ stack' = LoadBackendStack(stack, "built", NoModule, id)
    /\ Quiet
    /\ UNCHANGED <<alive, env, main, listening, clock>>
    /\ UNCHANGED others

\* await import(outfile) rejects: the file is gone, or evaluating it throws
ImportRejects(id) ==
    /\ alive
    /\ rebuilds[id].pc = "import"
    /\ Cached(id) = {}
    /\ rebuilds' = [rebuilds EXCEPT ![id].pc = "done", ![id].outcome = "importFailed"]
    /\ stack' = LoadBackendStack(stack, "failed", NoModule, id)
    /\ Quiet
    /\ UNCHANGED <<alive, env, main, listening, clock, disk>>
    /\ UNCHANGED others

\* await import(outfile) resolves with the module cached for the path, or
\* else with the evaluated file, and loadBackend runs on to its end or to
\* the throw of registerRoutes: lines 127-136
ImportResolves(id, kind) ==
    /\ alive
    /\ rebuilds[id].pc = "import"
    /\ Cached(id) # {} \/ OnDisk(id)
    /\ \E mod \in IF Cached(id) # {} THEN Cached(id) ELSE {kind} :
         /\ stack' = LoadBackendStack(stack, "loaded", mod, id)
         /\ rebuilds' =
              [rebuilds EXCEPT
                 ![id].mod = mod,
                 ![id].pc = IF HasRegisterRoutes(mod) /\ RegisterThrows(mod)
                            THEN "done" ELSE "immediate",
                 ![id].outcome = CASE ~HasRegisterRoutes(mod) -> "noExport"
                                   [] RegisterThrows(mod) -> "registerFailed"
                                   [] OTHER -> "reloaded"]
    /\ Quiet
    /\ UNCHANGED <<alive, env, main, listening, clock, disk>>
    /\ UNCHANGED others

\* setImmediate(() => cleanupOldBundles()) runs: access, readdir, and the
\* choice of the files to delete
CleanupLists(id) ==
    /\ alive
    /\ rebuilds[id].pc = "immediate"
    /\ LET files == disk
           doomed == FilesToDelete(files)
       IN  rebuilds' = [rebuilds EXCEPT
                          ![id].pc = IF doomed = {} THEN "done" ELSE "unlink",
                          ![id].listed = IF doomed = {} THEN {} ELSE files,
                          ![id].pending = doomed]
    /\ Quiet
    /\ UNCHANGED <<alive, env, main, listening, clock, disk, stack>>
    /\ UNCHANGED others

\* fs.access(distDir) or fs.readdir(distDir) of a pass rejects: the inner
\* catch returns, the outer catch ignores, and the pass deletes nothing
CleanupListFails(id) ==
    /\ alive
    /\ rebuilds[id].pc = "immediate"
    /\ rebuilds' = [rebuilds EXCEPT ![id].pc = "done",
                                    ![id].listed = {},
                                    ![id].pending = {}]
    /\ Quiet
    /\ UNCHANGED <<alive, env, main, listening, clock, disk, stack>>
    /\ UNCHANGED others

\* fs.unlink without the try/catch around it: a rejection inside the
\* forEach callback is an unhandled rejection, which ends the process
UnlinkUncaught(id, file, fails) ==
    /\ alive
    /\ rebuilds[id].pc = "unlink"
    /\ file \in rebuilds[id].pending
    /\ disk' = IF fails THEN disk ELSE disk \ {file}
    /\ alive' = ~fails
    /\ LET rest == rebuilds[id].pending \ {file}
       IN  rebuilds' = [rebuilds EXCEPT
                          ![id].pending = rest,
                          ![id].pc = IF rest = {} THEN "done" ELSE "unlink",
                          ![id].listed = IF rest = {} THEN {} ELSE rebuilds[id].listed]
    /\ Quiet
    /\ UNCHANGED <<env, main, listening, clock, stack>>
    /\ UNCHANGED others

\* one await fs.unlink(file.path) of a pass settles; a failure is ignored
Unlink(id, file, fails) ==
    /\ alive
    /\ rebuilds[id].pc = "unlink"
    /\ file \in rebuilds[id].pending
    /\ disk' = IF fails THEN disk ELSE disk \ {file}
    /\ LET rest == rebuilds[id].pending \ {file}
       IN  rebuilds' = [rebuilds EXCEPT
                          ![id].pending = rest,
                          ![id].pc = IF rest = {} THEN "done" ELSE "unlink",
                          ![id].listed = IF rest = {} THEN {} ELSE rebuilds[id].listed]
    /\ Quiet
    /\ UNCHANGED <<alive, env, main, listening, clock, stack>>
    /\ UNCHANGED others

\* the main initialization function calling app.listen without awaiting the
\* initial loadBackend()
ListenWithoutAwait(bound) ==
    /\ alive
    /\ main = "initial-load"
    /\ IF bound
       THEN /\ listening' = TRUE
            /\ main' = IF env = "development" THEN "setup" ELSE "serving"
            /\ alive' = alive
       ELSE /\ listening' = FALSE
            /\ main' = "crashed"
            /\ alive' = FALSE
    /\ Quiet
    /\ UNCHANGED <<env, clock, disk, stack, rebuilds>>
    /\ UNCHANGED others

\* the main initialization function after the initial load: the rejection is
\* caught and logged, then app.listen; a listener that cannot bind ends the
\* process
Listen(bound) ==
    /\ alive
    /\ main = "initial-load"
    /\ Settled(1)
    /\ IF bound
       THEN /\ listening' = TRUE
            /\ main' = IF env = "development" THEN "setup" ELSE "serving"
            /\ alive' = alive
       ELSE /\ listening' = FALSE
            /\ main' = "crashed"
            /\ alive' = FALSE
    /\ Quiet
    /\ UNCHANGED <<env, clock, disk, stack, rebuilds>>
    /\ UNCHANGED others

\* development: setupVite has resolved and chokidar watches server/ and
\* shared/; all of this took longer than one instant of Date.now()
Watch ==
    /\ alive
    /\ main = "setup"
    /\ main' = "watching"
    /\ clock' = clock + 1
    /\ Quiet
    /\ UNCHANGED <<alive, env, listening, disk, stack, rebuilds>>
    /\ UNCHANGED others

\* the values Date.now() can return next: the instant of the last call still,
\* or a later one (instants are told apart only when a rebuild was stamped)
Now == {clock} \cup IF \E id \in Ids : rebuilds[id].ts = clock THEN {clock + 1} ELSE {}

\* the callback calling loadBackend twice for one event
WatcherCallbackTwice(type, path, now) ==
    /\ alive
    /\ main = "watching"
    /\ clock' = IF ShouldReload(path) THEN now ELSE clock
    /\ lastEvent' = [type |-> type, path |-> path, reload |-> ShouldReload(path)]
    /\ IF ShouldReload(path)
       THEN /\ rebuilds' = rebuilds \o <<NewRebuild(now), NewRebuild(now)>>
            /\ stack' = stack
       ELSE UNCHANGED <<rebuilds, stack>>
    /\ lastResp' = NoResp
    /\ UNCHANGED <<alive, env, main, listening, disk>>
    /\ UNCHANGED others

\* the "all" callback of lines 187-198 runs for an event
WatcherCallback(type, path, now) ==
    /\ alive
    /\ main = "watching"
    /\ clock' = IF ShouldReload(path) THEN now ELSE clock
    /\ lastEvent' = [type |-> type, path |-> path, reload |-> ShouldReload(path)]
    /\ IF ShouldReload(path)
       THEN /\ rebuilds' = Append(rebuilds, NewRebuild(now))
            /\ stack' = LoadBackendStack(stack, "start", NoModule, Len(rebuilds) + 1)
       ELSE UNCHANGED <<rebuilds, stack>>
    /\ lastResp' = NoResp
    /\ UNCHANGED <<alive, env, main, listening, disk>>
    /\ UNCHANGED others

\* chokidar delivers an event
WatcherEvent(type, path, now) ==
    /\ Len(rebuilds) < MaxRebuilds
    /\ WatcherCallback(type, path, now)

\* a GET below /api reaches backendRouter
Request(path) ==
    /\ alive
    /\ listening
    /\ lastResp' = [path |-> path, status |-> Dispatch(stack, path).status,
                    by |-> Dispatch(stack, path).by,
                    during |-> \E id \in Ids : InFlight(id)]
    /\ lastEvent' = NoEvent
    /\ UNCHANGED <<alive, env, main, listening, clock, disk, stack, rebuilds>>
    /\ UNCHANGED others

Next ==
    \/ \E id \in Ids : \E built \in BOOLEAN : BuildSettles(id, built)
    \/ \E id \in Ids : ImportRejects(id)
    \/ \E id \in Ids : \E kind \in ModuleKinds : ImportResolves(id, kind)
    \/ \E id \in Ids : CleanupLists(id)
    \/ \E id \in Ids : CleanupListFails(id)
    \/ \E id \in Ids : \E file \in rebuilds[id].pending : \E fails \in BOOLEAN :
           Unlink(id, file, fails)
    \/ \E bound \in BOOLEAN : Listen(bound)
    \/ Watch
    \/ \E type \in EventTypes : \E path \in WatchedPaths : \E now \in Now :
           WatcherEvent(type, path, now)
    \/ \E path \in ApiPaths : Request(path)

Spec == Init /\ [][Next]_vars

----------------------------------------------------------------------------
(* Properties *)

Failures == {"buildFailed", "importFailed", "registerFailed"}

\* the rebuilds that have written backendRouter.stack
Writers == { id \in Ids : rebuilds[id].outcome \in {"reloaded", "registerFailed"} }

\* the table a rebuild's registerRoutes alone mounts
TableOf(id) ==
    [i \in 1..Len(Mounted(rebuilds[id].mod)) |->
        [route |-> Mounted(rebuilds[id].mod)[i], by |-> id]]

\* the two files of a listing with the greatest embedded timestamps
Newest2(files) ==
    { f \in files : Cardinality({ g \in files : Timestamp(g) > Timestamp(f) }) < 2 }

\* C1: when the build of a rebuild started by a change event fails, the
\* failure is reported with console.error, the process and its listener go
\* on, and the step leaves backendRouter.stack as it was, so that GET
\* /api/hello is answered as before.
C1_BuildFailureKeepsTable ==
    [][\A id \in Ids \ {1} :
         (rebuilds[id].pc = "build" /\ rebuilds'[id].outcome = "buildFailed") =>
            /\ stack' = stack
            /\ Dispatch(stack', "/hello") = Dispatch(stack, "/hello")
            /\ alive' /\ listening'
            /\ "Failed to build backend" \in ConsoleError(rebuilds'[id].outcome)
            /\ Settled(id)']_vars

\* a change-triggered rebuild has failed to build, and GET /api/hello is
\* still answered 200 by the table of the initial load
C1_Witness ==
    /\ \E id \in Ids \ {1} : rebuilds[id].outcome = "buildFailed"
    /\ lastResp.path = "/hello"
    /\ lastResp.status = "200 Hello, world!"
    /\ lastResp.by = 1

\* C2: while a rebuild is in flight the listener stays open and the table
\* that answers is one a settled rebuild has loaded, whole: no layer comes
\* from a rebuild still awaiting its build or import, the table is never
\* the emptied table of a swap under way, and a request answered then gets
\* what that table dispatches.
C2_InFlightServedByLoadedTable ==
    (main # "initial-load" /\ alive /\ \E id \in Ids : InFlight(id)) =>
        /\ listening
        /\ \A i \in 1..Len(stack) : Settled(stack[i].by)
        /\ IF Writers = {} THEN stack = << >>
           ELSE \E w \in Writers : stack = TableOf(w)
        /\ lastResp.during =>
              /\ lastResp.status = Dispatch(stack, lastResp.path).status
              /\ lastResp.by = 0 \/ Settled(lastResp.by)
              /\ lastResp.status # "none"

\* GET /api/hello is answered 200 from the table of the initial load while a
\* later rebuild is in flight
C2_Witness ==
    /\ lastResp.during
    /\ lastResp.path = "/hello"
    /\ lastResp.status = "200 Hello, world!"
    /\ lastResp.by = 1
    /\ \E id \in Ids \ {1} : InFlight(id)

\* C3: whenever no rebuild is in flight and no cleanup pass is scheduled or
\* running, dist/server holds at most 2 bundle files.
C3_AtMostTwoArtifacts ==
    (\A id \in Ids : ~InFlight(id) /\ ~Cleaning(id)) =>
        Cardinality({ f \in disk : IsBundleFile(f) }) <= 2

\* C4: a cleanup pass marks for deletion exactly the listed bundles other
\* than the 2 with the greatest timestamps (a pass whose listing failed has
\* listed none and marks none), and no file is ever removed while it is
\* among the 2 newest bundles on disk.
C4_CleanupKeepsNewestTwo ==
    [][/\ \A id \in Ids :
            (rebuilds[id].pc = "immediate" /\ rebuilds'[id].pc # "immediate") =>
                \/ /\ rebuilds'[id].pending = disk \ Newest2(disk)
                   /\ Cardinality(disk) > 2 =>
                         Cardinality(disk \ rebuilds'[id].pending) = 2
                \/ /\ rebuilds'[id].pc = "done"
                   /\ rebuilds'[id].listed = {}
                   /\ rebuilds'[id].pending = {}
       /\ \A id \in Ids :
            rebuilds'[id].pc = "unlink" =>
                rebuilds'[id].pending \subseteq
                    rebuilds'[id].listed \ Newest2(rebuilds'[id].listed)
       /\ \A f \in disk \ disk' : f \notin Newest2(disk)]_vars

\* a pass has listed more than 2 bundles and is deleting the oldest
C4_Witness ==
    \E id \in Ids :
        /\ rebuilds[id].pc = "unlink"
        /\ Cardinality(rebuilds[id].listed) > 2
        /\ rebuilds[id].pending # {}
        /\ \A f \in rebuilds[id].pending : \A g \in rebuilds[id].listed \ rebuilds[id].pending :
              Timestamp(f) < Timestamp(g)

\* C5: when the imported module has no registerRoutes export the step
\* leaves backendRouter.stack as it was, logs the violation, and
\* loadBackend goes on to schedule the cleanup and resolves; the process
\* lives.
C5_MissingExportSkipsSwap ==
    [][\A id \in Ids :
         (rebuilds[id].pc = "import" /\ rebuilds'[id].outcome = "noExport") =>
            /\ stack' = stack
            /\ "Backend module has no registerRoutes export!"
                   \in ConsoleError(rebuilds'[id].outcome)
            /\ rebuilds'[id].pc = "immediate"
            /\ alive' /\ listening' = listening]_vars

\* a rebuild found no export and the table of an earlier rebuild is live
C5_Witness ==
    \E id \in Ids \ {1} :
        /\ rebuilds[id].outcome = "noExport"
        /\ stack # << >>
        /\ \A i \in 1..Len(stack) : stack[i].by # id
        /\ Dispatch(stack, "/hello").status = "200 Hello, world!"

\* C6: an event starts a rebuild exactly when its path ends in .ts and is
\* not server/index.ts, whatever its type; no other step starts a rebuild.
C6_ReloadIffTsAndNotEntry ==
    [][/\ lastEvent' # NoEvent =>
            /\ (Len(rebuilds') = Len(rebuilds) + 1) <=>
                  (/\ lastEvent'.path[3] = ".ts"
                   /\ lastEvent'.path # <<"server/", "index", ".ts">>)
            /\ Len(rebuilds') \in {Len(rebuilds), Len(rebuilds) + 1}
            /\ Len(rebuilds') = Len(rebuilds) + 1 =>
                  rebuilds'[Len(rebuilds')].pc = "build"
       /\ lastEvent' = NoEvent => Len(rebuilds') = Len(rebuilds)]_vars

\* an event on server/index.ts has started no rebuild, after an event on
\* another .ts file has started one
C6_Witness ==
    /\ lastEvent.path = EntryFile
    /\ ~lastEvent.reload
    /\ Len(rebuilds) = 2
    /\ rebuilds[2].pc = "build"

\* C7: a table last written by a successful registration holds exactly the
\* layers one registerRoutes mounts, in order, all of that rebuild: the
\* table after N successful rebuilds is the table after 1.
C7_ReloadIsIdempotent ==
    (stack # << >> /\ rebuilds[stack[Len(stack)].by].outcome = "reloaded") =>
        /\ Routes(stack) = <<"/hello", "*">>
        /\ \A i \in 1..Len(stack) : stack[i].by = stack[Len(stack)].by

\* three rebuilds in a row have succeeded and the table is the third's
C7_Witness ==
    /\ Len(rebuilds) >= 3
    /\ \A id \in Ids : rebuilds[id].outcome = "reloaded"
    /\ stack # << >>
    /\ stack[1].by = 3

C9_FailureKeepsTable ==
    [][\A id \in Ids \ {1} :
         (InFlight(id) /\ rebuilds'[id].outcome \in Failures) => stack' = stack]_vars

\* C10: any two rebuilds have distinct, strictly increasing timestamps, and
\* no import finds a module cached for its path.
C10_DistinctTimestamps ==
    /\ \A i, j \in Ids : i < j => rebuilds[i].ts < rebuilds[j].ts
    /\ \A id \in Ids : rebuilds[id].pc = "import" => Cached(id) = {}

----------------------------------------------------------------------------
(* server/vite.ts: setupVite.  The function is exported; its callers are the
   main initialization function and whoever else imports it, and a call may
   start while an earlier one is still at an await. *)

\* bound on the setupVite calls
MaxSetups == 3

SetupIds == 1..Len(setups)

\* the dev servers that have not been closed
OpenSessions == { s \in 1..Len(viteServers) : viteServers[s] # "closed" }

\* the dev servers whose middlewares are attached to app
Attached == { appStack[i].vite : i \in { j \in 1..Len(appStack) : appStack[j].kind = "vite.middlewares" } }

\* app.use(vite.middlewares); app.use("*", ...)
UseVite(layers, session) ==
    layers \o <<Layer("vite.middlewares", session), Layer("*", session)>>

\* the pipeline as the main initialization function left it: the initial
\* load has been swapped in and the development listener is open
PipelineAt(mode) ==
    /\ alive = TRUE
    /\ env = mode
    /\ main = IF mode = "development" THEN "setup" ELSE "serving"
    /\ listening = TRUE
    /\ clock = 1
    /\ disk = {Outfile(1)}
    /\ stack = RegisterRoutes(<< >>, "ok", 1)
    /\ rebuilds = <<[NewRebuild(1) EXCEPT !.pc = "done", !.mod = "ok", !.outcome = "reloaded"]>>
    /\ lastEvent = NoEvent
    /\ lastResp = NoResp

InitVite ==
    /\ PipelineAt("development")
    /\ ViteIdle
    /\ HttpIdle
    /\ LibIdle
    /\ ScriptsIdle

\* setupVite is called and runs to its first await: lines 31-33, or 31 and
\* 37-43 when there is no current server
SetupVite ==
    /\ Len(setups) < MaxSetups
    /\ IF currentViteServer # 0
       THEN /\ setups' = Append(setups, [pc |-> "close", closing |-> currentViteServer, made |-> 0])
            /\ viteServers' = [viteServers EXCEPT ![currentViteServer] =
                                 IF @ = "open" THEN "closing" ELSE @]
       ELSE /\ setups' = Append(setups, [pc |-> "create", closing |-> 0, made |-> 0])
            /\ viteServers' = viteServers
    /\ UNCHANGED <<currentViteServer, appStack>>
    /\ UNCHANGED notVite

\* await currentViteServer.close() resolves: lines 34-43
CloseResolves(i) ==
    /\ setups[i].pc = "close"
    /\ viteServers' = [viteServers EXCEPT ![setups[i].closing] = "closed"]
    /\ currentViteServer' = 0
    /\ setups' = [setups EXCEPT ![i].pc = "create"]
    /\ UNCHANGED appStack
    /\ UNCHANGED notVite

\* await createViteServer(...) resolves: lines 59-85
CreateResolves(i) ==
    /\ setups[i].pc = "create"
    /\ LET vite == Len(viteServers) + 1
       IN  /\ viteServers' = Append(viteServers, "open")
           /\ currentViteServer' = vite
           /\ appStack' = UseVite(appStack, vite)
           /\ setups' = [setups EXCEPT ![i].pc = "done", ![i].made = vite]
    /\ UNCHANGED notVite

\* await createViteServer(...) rejects, and so does setupVite
CreateRejects(i) ==
    /\ setups[i].pc = "create"
    /\ setups' = [setups EXCEPT ![i].pc = "failed"]
    /\ UNCHANGED <<currentViteServer, viteServers, appStack>>
    /\ UNCHANGED notVite

NextVite ==
    \/ SetupVite
    \/ \E i \in SetupIds : CloseResolves(i)
    \/ \E i \in SetupIds : CreateResolves(i)
    \/ \E i \in SetupIds : CreateRejects(i)

SpecVite == InitVite /\ [][NextVite]_vars

\* C11: across any sequence of setupVite calls, also one that starts while
\* another is at an await, at most one dev server is open at a time and the
\* middlewares of at most one dev server are attached to app.
\* Violated: two calls that both find currentViteServer null each make a
\* server, and app.use only ever appends.
C11_OneViteSession ==
    /\ Cardinality(OpenSessions) <= 1
    /\ Cardinality(Attached) <= 1

----------------------------------------------------------------------------
(* A request going down the middleware of app, one layer in a step.  The
   handlers of the routes are those of server/backend.ts and
   server/routes/hello.ts; a route handler under asyncHandler may also throw
   before or after it has written, which reaches the error handler. *)

Undefined == Body("undefined", "")

Json(message) == Body("json", message)

Num(n) == [type |-> "number", content |-> "", number |-> n]

\* routes/hello.ts: res.json({ message: "Hello, world!" })
HelloHandler == [status |-> 0, args |-> <<Json("Hello, world!")>>, throws |-> "no"]

\* backend.ts: res.status(404).json({ message: "API route not found" })
CatchAllHandler == [status |-> 404, args |-> <<Json("API route not found")>>, throws |-> "no"]

\* index.ts: res.status(500).json({ message: "Internal Server Error" })
ErrorHandlerCall == [status |-> 500, args |-> <<Json("Internal Server Error")>>, throws |-> "no"]

\* the forms of call Express's res.json takes
JsonArgs ==
    { << >>, <<Json("Hello, world!")>>, <<Json("Hello, world!"), Num(201)>>,
      <<Num(201), Json("Hello, world!")>> }

\* what a route handler wrapped in asyncHandler can do: the one of hello.ts,
\* and handlers that call res.json in another form or reject
RouteHandlers ==
    {HelloHandler}
      \cup { [status |-> 0, args |-> a, throws |-> t] : a \in JsonArgs, t \in {"no", "after"} }
      \cup { [status |-> 0, args |-> << >>, throws |-> "before"] }

\* res.status(code)
Status(r, code) == IF code = 0 THEN r ELSE [r EXCEPT !.statusCode = code]

\* Express's res.json(obj), with its res.json(obj, status) and
\* res.json(status, obj) forms
ExpressResJson(r, args) ==
    LET statusFirst == Len(args) = 2 /\ args[2].type # "number"
        val  == CASE Len(args) = 0 -> Undefined
                  [] statusFirst -> args[2]
                  [] OTHER -> args[1]
        code == CASE Len(args) = 2 /\ statusFirst -> args[1].number
                  [] Len(args) = 2 -> args[2].number
                  [] OTHER -> r.statusCode
    IN  [r EXCEPT !.headersSent = TRUE, !.statusCode = code, !.body = val,
                  !.writes = @ + 1]

\* the logger's res.json with the rest arguments dropped
WrappedResJsonFirstOnly(r, args) ==
    LET bodyJson == IF Len(args) = 0 THEN Undefined ELSE Head(args)
    IN  [ExpressResJson(r, <<bodyJson>>) EXCEPT !.captured = bodyJson]

\* index.ts:21-25: function (bodyJson, ...args) { capturedJsonResponse =
\* bodyJson; return originalResJson.apply(res, [bodyJson, ...args]) }
WrappedResJson(r, args) ==
    LET bodyJson == IF Len(args) = 0 THEN Undefined ELSE Head(args)
        rest     == IF Len(args) = 0 THEN << >> ELSE Tail(args)
    IN  [ExpressResJson(r, <<bodyJson>> \o rest) EXCEPT !.captured = bodyJson]

\* res.status(call.status).json(...call.args) by the handler named
Respond(r, call, handler) ==
    LET pre  == Status(r, call.status)
        sent == IF pre.json = "wrapped" THEN WrappedResJson(pre, call.args)
                ELSE ExpressResJson(pre, call.args)
    IN  [sent EXCEPT !.by = handler, !.call = call]

\* a write that is not a res.json call: res.end, res.sendFile, a served file
Write(r, code, body, handler) ==
    [r EXCEPT !.headersSent = TRUE, !.statusCode = code, !.body = body,
              !.writes = @ + 1, !.by = handler]

\* router.get("", ...) of routes/hello.ts below the mount: the rest of the
\* path is empty, and the method is GET (Express answers HEAD with it too)
HelloRouterMatches(method, segs) == segs = << >> /\ method \in {"GET", "HEAD"}

\* whether a layer of backendRouter takes the request
LayerMatches(route, method, segs) ==
    CASE route = "*" -> TRUE
      [] route = "/hello" -> /\ segs # << >>
                             /\ Head(segs) = "hello"
                             /\ HelloRouterMatches(method, Tail(segs))
      [] OTHER -> FALSE

\* the handler backendRouter runs for a request below /api: the first layer,
\* in the order of the stack, that takes it
RECURSIVE DispatchRequest(_, _, _)
DispatchRequest(router, method, segs) ==
    IF router = << >> THEN [handler |-> "next", by |-> 0]
    ELSE IF LayerMatches(Head(router).route, method, segs)
         THEN [handler |-> IF Head(router).route = "*" THEN "catchAll" ELSE "hello",
               by |-> Head(router).by]
         ELSE DispatchRequest(Tail(router), method, segs)

Methods == {"GET", "POST"}

Paths ==
    { <<"api", "hello">>, <<"api", "hello", "world">>, <<"api", "does-not-exist">>,
      <<"api">>, << >>, <<"main.tsx">> }

Requests ==
    { [method |-> m, path |-> p, body |-> "none"] : m \in Methods, p \in Paths }
      \cup { [method |-> "POST", path |-> p, body |-> "malformed"] : p \in Paths }

InChain == at \in 1..Len(appStack)

AtLayer(kind) == InChain /\ appStack[at].kind = kind

\* next(): the layer does not answer
Pass == at' = at + 1 /\ UNCHANGED <<req, err, res>>

\* the response has been written and nothing calls next
Answer(r) == at' = -1 /\ res' = r /\ UNCHANGED <<req, err>>

\* next(e)
Fail(e) == at' = at + 1 /\ err' = e /\ UNCHANGED <<req, res>>

InitHttp ==
    /\ \E mode \in {"development", "production"} :
         /\ PipelineAt(mode)
         /\ IF mode = "development"
            THEN /\ currentViteServer = 1
                 /\ viteServers = <<"open">>
                 /\ appStack = UseVite(IndexLayers, 1)
                 /\ setups = <<[pc |-> "done", closing |-> 0, made |-> 1]>>
            ELSE /\ currentViteServer = 0
                 /\ viteServers = << >>
                 /\ appStack = UseStatic(IndexLayers)
                 /\ setups = << >>
    /\ HttpIdle
    /\ LibIdle
    /\ ScriptsIdle

\* the listener hands a request to app
Arrive(r) ==
    /\ at = 0
    /\ req' = r
    /\ at' = 1
    /\ err' = "none"
    /\ res' = NewResponse
    /\ UNCHANGED notHttp

\* express.json(): a body that does not parse is next(err)
ExpressJson ==
    /\ AtLayer("json")
    /\ IF err = "none" /\ req.body = "malformed" THEN Fail("parse") ELSE Pass
    /\ UNCHANGED notHttp

\* express.urlencoded()
ExpressUrlencoded ==
    /\ AtLayer("urlencoded")
    /\ Pass
    /\ UNCHANGED notHttp

\* index.ts:16-61 up to next(): res.json is replaced
Logger ==
    /\ AtLayer("logger")
    /\ at' = at + 1
    /\ res' = IF err = "none" THEN [res EXCEPT !.json = "wrapped"] ELSE res
    /\ UNCHANGED <<req, err>>
    /\ UNCHANGED notHttp

\* app.use("/api", backendRouter): the handler the table gives, if any
ApiRouter(call) ==
    /\ AtLayer("/api")
    /\ IF err # "none" \/ req.path = << >> \/ Head(req.path) # "api"
       THEN Pass
       ELSE LET d == DispatchRequest(stack, req.method, Tail(req.path))
            IN  CASE d.handler = "next" -> Pass
                  [] d.handler = "catchAll" -> Answer(Respond(res, CatchAllHandler, "catchAll"))
                  [] call.throws = "before" -> Fail("handler")
                  [] call.throws = "after" ->
                       /\ res' = Respond(res, call, "hello")
                       /\ at' = at + 1
                       /\ err' = "handler"
                       /\ req' = req
                  [] OTHER -> Answer(Respond(res, call, "hello"))
    /\ UNCHANGED notHttp

\* the error handler answering although a response has been sent
ErrorHandlerAlwaysResponds(r) == Respond(r, ErrorHandlerCall, "errorHandler")

\* index.ts:158-159: if (!res.headersSent) res.status(500).json(...)
ErrorHandlerResponse(r) ==
    IF ~r.headersSent THEN Respond(r, ErrorHandlerCall, "errorHandler") ELSE r

\* index.ts:155-160: the error handler; it never calls next
ErrorHandler ==
    /\ AtLayer("errorHandler")
    /\ IF err = "none" THEN Pass ELSE Answer(ErrorHandlerResponse(res))
    /\ UNCHANGED notHttp

\* vite.middlewares: the dev server answers the request or passes it on
ViteMiddlewares(served) ==
    /\ AtLayer("vite.middlewares")
    /\ IF err # "none" \/ ~served
       THEN Pass
       ELSE Answer(Write(res, 200, Body("module", "transformed"), "vite"))
    /\ UNCHANGED notHttp

\* vite.ts:62-85: the "*" handler; ok is whether readFile and
\* transformIndexHtml both resolve
ViteFallback(ok) ==
    /\ AtLayer("*")
    /\ appStack[at].vite # 0
    /\ IF err # "none" THEN Pass
       ELSE IF ok THEN Answer(Write(res, 200, Body("html", "page"), "fallback"))
       ELSE Fail("template")
    /\ UNCHANGED notHttp

\* express.static(distPath)
ExpressStatic(found) ==
    /\ AtLayer("express.static")
    /\ IF err # "none" \/ ~found
       THEN Pass
       ELSE Answer(Write(res, 200, Body("file", "asset"), "static"))
    /\ UNCHANGED notHttp

\* vite.ts:100-102: res.sendFile(index.html); a failure is next(err)
SendFile(ok) ==
    /\ AtLayer("*")
    /\ appStack[at].vite = 0
    /\ IF err # "none" THEN Pass
       ELSE IF ok THEN Answer(Write(res, 200, Body("html", "index.html"), "sendFile"))
       ELSE Fail("sendFile")
    /\ UNCHANGED notHttp

\* no layer is left: Express's final handler answers 404, or for an error
\* its status with the stack as the body unless env is "production"; with
\* the headers sent it only ends the connection
FinalHandler ==
    /\ at = Len(appStack) + 1
    /\ Answer(CASE res.headersSent -> res
                [] err = "none" -> Write(res, 404, Body("html", "Cannot " \o req.method), "finalhandler")
                [] OTHER ->
                     Write(res, IF err = "parse" THEN 400 ELSE 500,
                           IF env = "production" THEN Body("html", "Internal Server Error")
                           ELSE Body("html", "err.stack"),
                           "finalhandler"))
    /\ UNCHANGED notHttp

\* the response has finished: the logger's "finish" listener writes its line
\* to the console, and app is ready for the next request
Finish ==
    /\ at = -1
    /\ req' = NoRequest
    /\ at' = 0
    /\ err' = "none"
    /\ res' = NewResponse
    /\ UNCHANGED notHttp

NextHttp ==
    \/ \E r \in Requests : Arrive(r)
    \/ ExpressJson
    \/ ExpressUrlencoded
    \/ Logger
    \/ \E call \in RouteHandlers : ApiRouter(call)
    \/ ErrorHandler
    \/ \E served \in BOOLEAN : ViteMiddlewares(served)
    \/ \E ok \in BOOLEAN : ViteFallback(ok)
    \/ \E found \in BOOLEAN : ExpressStatic(found)
    \/ \E ok \in BOOLEAN : SendFile(ok)
    \/ FinalHandler
    \/ Finish

SpecHttp == InitHttp /\ [][NextHttp]_vars

\* what the client got
Delivered(r) == <<r.headersSent, r.statusCode, r.body, r.writes>>

\* C12: for every error that reaches the error handler of index.ts the
\* client is answered exactly once: the handler writes the 500
\* {"message":"Internal Server Error"} when nothing has been sent, and
\* leaves the response as it is otherwise.
C12_ErrorHandlerRespondsOnce ==
    [][ (AtLayer("errorHandler") /\ err # "none") =>
          /\ res'.writes = 1
          /\ res.headersSent => res' = res
          /\ ~res.headersSent =>
               /\ res'.by = "errorHandler"
               /\ res'.statusCode = 500
               /\ res'.body = Json("Internal Server Error") ]_vars

\* an error from a route handler has been answered by the error handler
C12_Witness ==
    /\ at = -1
    /\ err = "handler"
    /\ res.by = "errorHandler"
    /\ res.statusCode = 500
    /\ res.writes = 1

\* the paths below /api of the requests
ApiSubPaths == { Tail(p) : p \in { q \in Paths : q # << >> /\ Head(q) = "api" } }

\* the answer of backendRouter to a request below /api
ResponseTo(router, method, segs) ==
    LET d == DispatchRequest(router, method, segs)
    IN  CASE d.handler = "hello" -> Respond(NewResponse, HelloHandler, "hello")
          [] d.handler = "catchAll" -> Respond(NewResponse, CatchAllHandler, "catchAll")
          [] OTHER -> NewResponse

\* C13: a table a successful load has registered holds the routes in the
\* order of registration with the catch-all last; it answers GET /api/hello
\* with 200 {"message":"Hello, world!"} and every other request below /api
\* with 404 {"message":"API route not found"}.
C13_DispatchInRegistrationOrder ==
    (\E id \in Ids : rebuilds[id].outcome = "reloaded" /\ stack = TableOf(id)) =>
        /\ Routes(stack) = <<"/hello", "*">>
        /\ \A method \in Methods : \A segs \in ApiSubPaths :
             LET answer == ResponseTo(stack, method, segs)
             IN  IF method = "GET" /\ segs = <<"hello">>
                 THEN /\ answer.by = "hello"
                      /\ answer.statusCode = 200
                      /\ answer.body = Json("Hello, world!")
                 ELSE /\ answer.by = "catchAll"
                      /\ answer.statusCode = 404
                      /\ answer.body = Json("API route not found")

\* the table of a change-triggered rebuild has answered a request for a path
\* that no route has
C13_Witness ==
    /\ \E id \in Ids \ {1} : rebuilds[id].outcome = "reloaded" /\ stack = TableOf(id)
    /\ lastResp.path = "/does-not-exist"
    /\ lastResp.status = "404 API route not found"

\* C14: when reading or transforming the template fails in the "*" handler
\* of setupVite, the error handler of index.ts answers, with a 500 that does
\* not carry the stack.
\* Violated: the error handler is registered before the listener opens and
\* the "*" handler after it, so next(e) finds no error handler further down
\* and Express's final handler answers, with err.stack in development.
C14_TemplateErrorReachesErrorHandler ==
    (at = -1 /\ err = "template") =>
        /\ res.by = "errorHandler"
        /\ res.statusCode = 500
        /\ res.body # Body("html", "err.stack")

\* the handlers that answer with res.json
JsonHandlers == {"hello", "catchAll", "errorHandler"}

\* C15: the logging middleware does not alter the response: its own step
\* writes nothing, and a res.json call made after it delivers the status and
\* body that Express's res.json delivers for the same arguments.
C15_LoggerLeavesResponse ==
    [][ /\ AtLayer("logger") => Delivered(res') = Delivered(res)
        /\ (res'.writes > res.writes /\ res'.by \in JsonHandlers) =>
             Delivered(res') =
               Delivered(ExpressResJson(Status(res, res'.call.status), res'.call.args)) ]_vars

\* a handler has called the wrapped res.json(body, 201)
C15_Witness ==
    /\ at = -1
    /\ res.json = "wrapped"
    /\ res.call.args = <<Json("Hello, world!"), Num(201)>>
    /\ res.statusCode = 201
    /\ res.captured = Json("Hello, world!")

----------------------------------------------------------------------------
(* The publish script (the Railway pipeline in vite.config.ts): one run, from
   main() to process.exit.  One action is the continuation after one await;
   what the railway CLI, the deploy and the healthcheck report are inputs.
   The cause of a termination is kept next to the exit code. *)

\* the variables of process.env the script reads, each set or not
PublishEnvs ==
    [token : BOOLEAN, projectId : BOOLEAN, envId : BOOLEAN,
     appServiceId : BOOLEAN, healthcheckUrl : BOOLEAN]

\* main() has called which("railway")
PublishStart(e) ==
    [pc |-> "which-railway", env |-> e, exit |-> -1, reason |-> "", cause |-> "",
     projectId |-> "", envId |-> "", serviceId |-> "", saved |-> {}]

\* writeResult(okFlag, reason); process.exit(code)
Exit(p, code, reason, cause) ==
    [p EXCEPT !.pc = "exited", !.exit = code, !.reason = reason, !.cause = cause]

\* main().catch: err(...); writeResult(false, "unexpected error"); process.exit(30)
MainCatch(p) == Exit(p, 30, "unexpected error", "unexpected")

\* lines 462-476: what is saved to .env, then railway up is started
PersistAndDeploy(p) ==
    [p EXCEPT !.pc = "deploy",
              !.saved = { k \in {"projectId", "envId", "serviceId"} : p[k] \notin {"", "env"} }]

\* main after discoverProjectEnv has returned: lines 418-435
AfterDiscovery(p) ==
    CASE p.projectId = "" -> Exit(p, 10, "project_not_found", "discovery")
      [] p.envId = "" -> Exit(p, 10, "environment_not_found", "discovery")
      [] p.env.appServiceId -> PersistAndDeploy([p EXCEPT !.serviceId = "env"])
      [] OTHER -> [p EXCEPT !.pc = "service-list"]

\* discoverProjectEnv after step 2: step 3 if an environment is still to find
AfterProject(p) ==
    IF p.projectId # "" /\ p.envId = "" THEN [p EXCEPT !.pc = "env-list"]
    ELSE AfterDiscovery(p)

InitPublish ==
    /\ PipelineAt("development")
    /\ ViteIdle
    /\ HttpIdle
    /\ LibIdle
    /\ \E e \in PublishEnvs : publish = PublishStart(e)
    /\ envFile = << >>
    /\ authRuns = << >>

\* await which("railway")
WhichRailway(found) ==
    /\ publish.pc = "which-railway"
    /\ publish' = IF found THEN [publish EXCEPT !.pc = "which-node"]
                  ELSE Exit(publish, 10, "railway CLI missing", "prerequisite")
    /\ UNCHANGED <<envFile, authRuns, notScripts>>

\* await which("node")
WhichNode(found) ==
    /\ publish.pc = "which-node"
    /\ publish' = IF found THEN [publish EXCEPT !.pc = "which-npm"]
                  ELSE Exit(publish, 10, "node/npm missing", "prerequisite")
    /\ UNCHANGED <<envFile, authRuns, notScripts>>

\* await which("npm"), the test of RAILWAY_TOKEN, and railway status started
WhichNpm(found) ==
    /\ publish.pc = "which-npm"
    /\ publish' = CASE ~found -> Exit(publish, 10, "node/npm missing", "prerequisite")
                    [] ~publish.env.token -> Exit(publish, 10, "RAILWAY_TOKEN missing", "prerequisite")
                    [] OTHER -> [publish EXCEPT !.pc = "status"]
    /\ UNCHANGED <<envFile, authRuns, notScripts>>

\* discoverProjectEnv step 1: railway status --json
RailwayStatus(linkedProject, linkedEnv) ==
    /\ publish.pc = "status"
    /\ LET p == [publish EXCEPT
                   !.projectId = CASE publish.env.projectId -> "env"
                                   [] linkedProject -> "linked"
                                   [] OTHER -> "",
                   !.envId = CASE publish.env.envId -> "env"
                               [] linkedEnv -> "linked"
                               [] OTHER -> ""]
       IN  publish' = IF p.projectId = "" THEN [p EXCEPT !.pc = "project-list"]
                      ELSE AfterProject(p)
    /\ UNCHANGED <<envFile, authRuns, notScripts>>

ProjectLists == {"none", "one", "many", "null-entry"}

\* discoverProjectEnv step 2: railway project list --json
ProjectList(projects) ==
    /\ publish.pc = "project-list"
    /\ publish' = CASE projects = "one" -> AfterProject([publish EXCEPT !.projectId = "sole"])
                    [] projects = "many" -> Exit(publish, 10, "multiple_projects", "discovery")
                    [] projects = "null-entry" -> MainCatch(publish)
                    [] OTHER -> AfterProject(publish)
    /\ UNCHANGED <<envFile, authRuns, notScripts>>

EnvLists == {"none", "one", "preferred", "many"}

\* discoverProjectEnv step 3: railway environment list --json
EnvList(envs) ==
    /\ publish.pc = "env-list"
    /\ publish' = CASE envs = "one" -> AfterDiscovery([publish EXCEPT !.envId = "sole"])
                    [] envs = "preferred" -> AfterDiscovery([publish EXCEPT !.envId = "preferred"])
                    [] envs = "many" -> Exit(publish, 10, "multiple_environments", "discovery")
                    [] OTHER -> AfterDiscovery(publish)
    /\ UNCHANGED <<envFile, authRuns, notScripts>>

ServiceLists == {"none", "only-db", "one", "many", "error"}

\* resolveAppService has listed the services: lines 336-384 and 433-460
ServiceList(services) ==
    /\ publish.pc = "service-list"
    /\ publish' = CASE services = "one" -> PersistAndDeploy([publish EXCEPT !.serviceId = "sole"])
                    [] services = "none" -> Exit(publish, 10, "service_not_found", "discovery")
                    [] services = "only-db" -> Exit(publish, 10, "only_db_services", "discovery")
                    [] services = "many" -> Exit(publish, 10, "multiple_services", "discovery")
                    [] OTHER -> Exit(publish, 10, "service_autodetect_failed", "discovery")
    /\ UNCHANGED <<envFile, authRuns, notScripts>>

\* what railway up --ci can end with: it builds the service and deploys it;
\* the script's own build step is commented out (lines 484-500)
Deploys == {"ok", "build-failed", "deploy-failed"}

\* await run("railway", ["up", "--ci", ...]): lines 505-549
Deploy(outcome) ==
    /\ publish.pc = "deploy"
    /\ publish' = CASE outcome = "build-failed" -> Exit(publish, 30, "deploy failed", "build")
                    [] outcome = "deploy-failed" -> Exit(publish, 30, "deploy failed", "deploy")
                    [] publish.env.healthcheckUrl -> [publish EXCEPT !.pc = "healthcheck"]
                    [] OTHER -> Exit(publish, 0, "", "success")
    /\ UNCHANGED <<envFile, authRuns, notScripts>>

\* await healthcheck(HEALTHCHECK_URL): lines 537-549
Healthcheck(pass) ==
    /\ publish.pc = "healthcheck"
    /\ publish' = IF pass THEN Exit(publish, 0, "", "success")
                  ELSE Exit(publish, 40, "healthcheck failed", "healthcheck")
    /\ UNCHANGED <<envFile, authRuns, notScripts>>

NextPublish ==
    \/ \E found \in BOOLEAN : WhichRailway(found)
    \/ \E found \in BOOLEAN : WhichNode(found)
    \/ \E found \in BOOLEAN : WhichNpm(found)
    \/ \E linkedProject \in BOOLEAN : \E linkedEnv \in BOOLEAN :
           RailwayStatus(linkedProject, linkedEnv)
    \/ \E projects \in ProjectLists : ProjectList(projects)
    \/ \E envs \in EnvLists : EnvList(envs)
    \/ \E services \in ServiceLists : ServiceList(services)
    \/ \E outcome \in Deploys : Deploy(outcome)
    \/ \E pass \in BOOLEAN : Healthcheck(pass)

SpecPublish == InitPublish /\ [][NextPublish]_vars

\* the exit code the header of the script documents for a cause
DocumentedExit(cause) ==
    CASE cause = "success" -> {0}
      [] cause \in {"prerequisite", "discovery"} -> {10}
      [] cause = "build" -> {20}
      [] cause = "deploy" -> {30}
      [] cause = "healthcheck" -> {40}
      [] OTHER -> {}

\* C16: every termination of the publish script has the exit code that the
\* header documents for its cause: 0 success, 10 missing prerequisites or
\* ambiguous discovery, 20 build failed, 30 deploy failed, 40 healthcheck
\* failed.
\* Violated: the build runs inside railway up, whose failure is exit 30, and
\* no path exits with 20; main().catch exits with 30 for any other error.
C16_ExitCodeMatchesCause ==
    publish.pc = "exited" => publish.exit \in DocumentedExit(publish.cause)

----------------------------------------------------------------------------
(* The auth-secret script (generate-auth-secret in vite.config.ts).  The
   .env file is a sequence of lines KEY=value, the value in double quotes or
   not, and comment lines; a missing file reads as an empty one. *)

\* bounds on the lines of the .env file and on the runs of the script
MaxEnvLines == 2
MaxAuthRuns == 3

Comment == [key |-> "#", value |-> "", quoted |-> FALSE]

\* an empty value, a value of white space, a secret set earlier, a URL
EnvLines ==
    {Comment}
      \cup { [key |-> "AUTH_SECRET", value |-> v, quoted |-> q] :
               v \in {"", " ", "s0"}, q \in BOOLEAN }
      \cup { [key |-> "DATABASE_URL", value |-> "x", quoted |-> q] : q \in BOOLEAN }

\* what openssl rand -base64 33 can print
Secrets == {"s1", "s2"}

EnvFiles == UNION { [1..n -> EnvLines] : n \in 0..MaxEnvLines }

\* String.prototype.trim on the values above
Trim(v) == IF v = " " THEN "" ELSE v

\* the value dotenv.parse gives a line: that of an unquoted line is trimmed
ParseValue(line) == IF line.quoted THEN line.value ELSE Trim(line.value)

NoValue == "undefined"

\* envVars[key]
RECURSIVE Lookup(_, _)
Lookup(envVars, key) ==
    IF envVars = << >> THEN NoValue
    ELSE IF Head(envVars).key = key THEN Head(envVars).value
    ELSE Lookup(Tail(envVars), key)

\* envVars[key] = value: a new key goes last, a key set before keeps its place
Assign(envVars, key, value) ==
    IF \E i \in 1..Len(envVars) : envVars[i].key = key
    THEN [i \in 1..Len(envVars) |->
            IF envVars[i].key = key THEN [key |-> key, value |-> value] ELSE envVars[i]]
    ELSE Append(envVars, [key |-> key, value |-> value])

\* readEnvFile: dotenv.parse of the file; comments are left out, and the
\* last line of a key gives its value
RECURSIVE ParseEnv(_)
ParseEnv(lines) ==
    IF lines = << >> THEN << >>
    ELSE LET line == lines[Len(lines)]
             rest == ParseEnv(SubSeq(lines, 1, Len(lines) - 1))
         IN  IF line.key = "#" THEN rest
             ELSE Assign(rest, line.key, ParseValue(line))

\* writeEnvFile: one line `${key}=${value}` for each entry
WriteEnv(envVars) ==
    [i \in 1..Len(envVars) |->
       [key |-> envVars[i].key, value |-> envVars[i].value, quoted |-> FALSE]]

\* the script never skipping
ShouldSkipNever(envVars) == FALSE

\* line 615: envVars.AUTH_SECRET && envVars.AUTH_SECRET.trim() !== ""
ShouldSkip(envVars) ==
    LET secret == Lookup(envVars, "AUTH_SECRET")
    IN  secret \notin {NoValue, ""} /\ Trim(secret) # ""

InitSecret ==
    /\ PipelineAt("development")
    /\ ViteIdle
    /\ HttpIdle
    /\ LibIdle
    /\ publish = [pc |-> "idle"]
    /\ envFile \in EnvFiles
    /\ authRuns = << >>

\* one run of the script: addAuthSecret(); generated is whether openssl
\* gave a secret (process.exit(1) otherwise)
AddAuthSecret(generated, secret) ==
    /\ Len(authRuns) < MaxAuthRuns
    /\ LET envVars == ParseEnv(envFile)
       IN  CASE ShouldSkip(envVars) ->
                   /\ envFile' = envFile
                   /\ authRuns' = Append(authRuns, "skipped")
             [] ~generated ->
                   /\ envFile' = envFile
                   /\ authRuns' = Append(authRuns, "failed")
             [] OTHER ->
                   /\ envFile' = WriteEnv(Assign(envVars, "AUTH_SECRET", secret))
                   /\ authRuns' = Append(authRuns, "added")
    /\ UNCHANGED <<publish, notScripts>>

NextSecret == \E generated \in BOOLEAN : \E secret \in Secrets : AddAuthSecret(generated, secret)

SpecSecret == InitSecret /\ [][NextSecret]_vars

\* the file sets AUTH_SECRET to something other than white space: its last
\* AUTH_SECRET line holds it
HoldsSecret(file) ==
    \E i \in 1..Len(file) :
        /\ file[i].key = "AUTH_SECRET"
        /\ file[i].value \notin {"", " "}
        /\ \A j \in (i + 1)..Len(file) : file[j].key # "AUTH_SECRET"

----------------------------------------------------------------------------
(* Rebuilds that overlap.  For a cleanup pass to choose the bundle of a
   rebuild that is still importing it, two newer bundles must be on disk:
   three change-triggered rebuilds after the initial load.  This
   specification starts when the initial load and its cleanup are done, lets
   every build succeed, and lets an import reject only when its file is
   gone. *)

\* bound on the loadBackend calls, the initial one included
MaxOverlap == 4

InitOverlap ==
    /\ PipelineAt("development")
    /\ ViteIdle
    /\ HttpIdle
    /\ LibIdle
    /\ ScriptsIdle

\* chokidar delivers a change of server/backend.ts
BackendChanged(now) ==
    /\ Len(rebuilds) < MaxOverlap
    /\ WatcherCallback("change", <<"server/", "backend", ".ts">>, now)

\* await import(outfile) rejects because the file has been deleted
ImportOfDeletedRejects(id) ==
    /\ ~OnDisk(id)
    /\ ImportRejects(id)

NextOverlap ==
    \/ Watch
    \/ \E now \in Now : BackendChanged(now)
    \/ \E id \in Ids : BuildSettles(id, TRUE)
    \/ \E id \in Ids : ImportResolves(id, "ok")
    \/ \E id \in Ids : ImportOfDeletedRejects(id)
    \/ \E id \in Ids : CleanupLists(id)
    \/ \E id \in Ids : \E file \in rebuilds[id].pending : Unlink(id, file, FALSE)

SpecOverlap == InitOverlap /\ [][NextOverlap]_vars

\* C18: no step deletes the bundle of a rebuild that has built it and has
\* not yet imported it, whatever the interleaving of the rebuilds; and the
\* cleanup pass of a rebuild runs only after that rebuild has imported.
\* Violated: a pass lists every bundle but the two newest, also the bundle
\* of an older rebuild that is still at its import.
C18_CleanupSparesUnloadedArtifacts ==
    [][ /\ \A id \in Ids :
             (rebuilds[id].pc = "import" /\ OnDisk(id)) =>
                 Outfile(rebuilds[id].ts) \in disk'
        /\ \A id \in Ids : Cleaning(id) => rebuilds[id].mod # NoModule ]_vars

\* C19: whenever a request can be dispatched after an initial load that
\* went through, backendRouter.stack is the whole table that one rebuild
\* registered: not empty, not a part of a table, not a mix of two.
\* Violated: the stack is cleared before registerRoutes runs, and a
\* registerRoutes that throws after its first mount leaves that part live.
C19_TableCompleteFromOneArtifact ==
    (listening /\ rebuilds[1].outcome = "reloaded") =>
        \E id \in Ids : rebuilds[id].outcome = "reloaded" /\ stack = TableOf(id)

\* C20: at no time are two loadBackend executions in progress.
\* Violated: the watcher callback calls loadBackend for every actionable
\* event, whether or not an earlier call is still at its build or import.
C20_NoTwoRebuildsInProgress ==
    Cardinality({ id \in Ids : InFlight(id) }) <= 1

\* C21: once every rebuild has gone through, the table is the one the most
\* recently started rebuild registered, whatever order they finished in.
\* Violated: each rebuild swaps its table in when its own import resolves,
\* so the table is that of the rebuild that finished last.
C21_TableOfLatestRebuild ==
    (\A id \in Ids : rebuilds[id].outcome = "reloaded") =>
        stack = TableOf(Len(rebuilds))

\* the build of a rebuild has completed successfully
Built(id) == rebuilds[id].pc # "build" /\ rebuilds[id].outcome # "buildFailed"

\* C22: a rebuild whose build has not completed successfully has mounted
\* nothing in the table, has no cleanup pass scheduled or running, and has
\* imported nothing; and the table is never left cleared by a rebuild that
\* has not registered.
C22_BuildPrecedesSwapAndPrune ==
    /\ \A id \in Ids :
         ~Built(id) =>
             /\ \A i \in 1..Len(stack) : stack[i].by # id
             /\ ~Cleaning(id)
             /\ rebuilds[id].pending = {}
             /\ rebuilds[id].mod = NoModule
    /\ stack = << >> => Writers = {}

\* a rebuild is at its build while the table is that of an earlier rebuild
\* whose cleanup pass is scheduled
C22_Witness ==
    \E id \in Ids : \E earlier \in Ids :
        /\ earlier < id
        /\ rebuilds[id].pc = "build"
        /\ rebuilds[earlier].pc = "immediate"
        /\ earlier > 1
        /\ stack = TableOf(earlier)

\* C23: an actionable event starts exactly one rebuild, stamped with the
\* instant of the event and at its build; an event that is not actionable
\* starts none; and nothing else starts a rebuild or takes one back to its
\* build.
C23_OneRebuildPerActionableEvent ==
    [][ /\ (lastEvent' # NoEvent /\ lastEvent'.reload) =>
               rebuilds' = Append(rebuilds, NewRebuild(clock'))
        /\ (lastEvent' # NoEvent /\ ~lastEvent'.reload) => rebuilds' = rebuilds
        /\ lastEvent' = NoEvent =>
               /\ Len(rebuilds') = Len(rebuilds)
               /\ \A id \in Ids : rebuilds'[id].pc = "build" => rebuilds[id].pc = "build" ]_vars

\* one actionable event has started the one rebuild after the initial load,
\* which has gone through, and a later event on a .json file has started none
C23_Witness ==
    /\ Len(rebuilds) = 2
    /\ rebuilds[2].outcome = "reloaded"
    /\ lastEvent # NoEvent
    /\ ~lastEvent.reload
    /\ lastEvent.path = <<"shared/", "data", ".json">>

\* C24: a rebuild whose build succeeded and that has come to its end has had
\* its cleanup pass.
\* Violated: the pass is scheduled by the last statement of loadBackend,
\* which a rejected import or a throwing registerRoutes never reaches.
C24_PruneAfterEverySuccessfulBuild ==
    \A id \in Ids :
        (Built(id) /\ rebuilds[id].pc = "done") =>
            rebuilds[id].outcome \in {"reloaded", "noExport"}

-----------------------------------------------------------------------------
(* Cleanup passes that fail: changes of server/backend.ts delivered one
   rebuild after the other, with listings and deletions that may fail and
   passes that run into the next rebuild *)

\* chokidar delivers a change of server/backend.ts while no rebuild is
\* between its build and its registration
ChangeBetweenRebuilds(now) ==
    /\ \A id \in Ids : Settled(id)
    /\ BackendChanged(now)

NextCleanup ==
    \/ Watch
    \/ \E now \in Now : ChangeBetweenRebuilds(now)
    \/ \E id \in Ids : BuildSettles(id, TRUE)
    \/ \E id \in Ids : ImportResolves(id, "ok")
    \/ \E id \in Ids : CleanupLists(id)
    \/ \E id \in Ids : CleanupListFails(id)
    \/ \E id \in Ids : \E file \in rebuilds[id].pending : \E fails \in BOOLEAN :
           Unlink(id, file, fails)

SpecCleanup == InitOverlap /\ [][NextCleanup]_vars

\* C25: a step of a cleanup pass that deletes nothing, because the listing or
\* a deletion failed, leaves the process running, the table and the outcome
\* of the rebuild as they were; and after a failed deletion every other
\* deletion of the pass is still attempted.
C25_CleanupFailuresSwallowed ==
    [][ \A id \in Ids :
          (Cleaning(id) /\ rebuilds'[id] # rebuilds[id] /\ disk' = disk) =>
              /\ alive'
              /\ stack' = stack
              /\ rebuilds'[id].outcome = rebuilds[id].outcome
              /\ rebuilds[id].pc = "unlink" =>
                    /\ rebuilds'[id].pending \subseteq rebuilds[id].pending
                    /\ Cardinality(rebuilds'[id].pending) =
                           Cardinality(rebuilds[id].pending) - 1
                    /\ rebuilds'[id].pc =
                           IF rebuilds'[id].pending = {} THEN "done" ELSE "unlink" ]_vars

\* a pass had two files to delete: the deletion of one has failed, the file
\* is still there, and the deletion of the other is still to come
C25_Witness ==
    \E id \in Ids :
        /\ alive
        /\ rebuilds[id].pc = "unlink"
        /\ rebuilds[id].outcome = "reloaded"
        /\ Cardinality(FilesToDelete(rebuilds[id].listed)) = 2
        /\ Cardinality(rebuilds[id].pending) = 1
        /\ FilesToDelete(rebuilds[id].listed) \subseteq disk

-----------------------------------------------------------------------------
(* The line the logging middleware passes to log(): server/index.ts, the
   finish listener.  A string is the sequence of its UTF-16 code units, the
   unit String.prototype.length and slice count in. *)

\* the length above which the serialized response is cut, the length above
\* which the line is cut, and the length the line is cut to
SnippetLimit == 100
LineLimit == 200
LineKeep == 79

\* a string of n code units
Chars(n) == [i \in 1..n |-> "x"]

\* the string literal appended where something was cut: three code units as
\* the file stores it (U+00E2, U+20AC, U+00A6)
Ellipsis == <<"u00E2", "u20AC", "u00A6">>

\* s.slice(0, n)
Slice(s, n) == IF Len(s) <= n THEN s ELSE SubSeq(s, 1, n)

\* `${n}` for a number n >= 0
RECURSIVE Decimal(_)
Decimal(n) == IF n < 10 THEN Chars(1) ELSE Decimal(n \div 10) \o Chars(1)

\* responseStr.length > 100 ? responseStr.slice(0, 100) + ellipsis : responseStr
TrimmedResponse(responseStr) ==
    IF Len(responseStr) > SnippetLimit
    THEN Slice(responseStr, SnippetLimit) \o Ellipsis
    ELSE responseStr

\* the line left as composed, however long
CapLineNever(logLine) == logLine

\* if (logLine.length > 200) logLine = logLine.slice(0, 79) + ellipsis
CapLine(logLine) ==
    IF Len(logLine) > LineLimit
    THEN Slice(logLine, LineKeep) \o Ellipsis
    ELSE logLine

\* the line as composed from a request r: body, query and response are the
\* JSON.stringify results, empty where the listener's test skips the part
\* (no body or no keys, no query, a falsy capturedJsonResponse)
LogLine(r) ==
    LET head  == r.method \o Chars(1) \o r.path \o Chars(1) \o Decimal(r.statusCode)
                   \o Chars(4) \o Decimal(r.duration) \o Chars(2)
        body  == IF r.body = << >> THEN << >> ELSE Chars(10) \o r.body
        query == IF r.query = << >> THEN << >> ELSE Chars(11) \o r.query
        resp  == IF r.response = << >> THEN << >>
                 ELSE Chars(14) \o TrimmedResponse(r.response)
    IN  CapLine(head \o body \o query \o resp)

\* the requests a finish listener runs for: method, path, status, duration
\* and the serialized body, query and captured response, with lengths on
\* both sides of the two limits
LoggedRequests ==
    LET api == <<"/", "a", "p", "i">>
    IN
    [ method     : { <<"G", "E", "T">>, <<"D", "E", "L", "E", "T", "E">> },
      path       : { api, api \o Chars(6), api \o Chars(170), Chars(2) },
      statusCode : {200, 404},
      duration   : {0, 12345},
      body       : { Chars(0), Chars(17), Chars(150) },
      query      : { Chars(0), Chars(30) },
      response   : { Chars(0), Chars(27), Chars(100), Chars(101), Chars(250) } ]

InitLog ==
    /\ PipelineAt("development")
    /\ ViteIdle
    /\ HttpIdle
    /\ ScriptsIdle
    /\ LibIdle

\* res.on("finish", ...) runs for a request; the line is composed and
\* logged if path.startsWith("/api")
OnFinish(r) ==
    /\ logged' = IF Slice(r.path, 4) = <<"/", "a", "p", "i">>
                 THEN [pc |-> "logged", req |-> r,
                       snippet |-> TrimmedResponse(r.response),
                       line |-> LogLine(r)]
                 ELSE [pc |-> "skipped", req |-> r]
    /\ UNCHANGED notLogged

NextLog == \E r \in LoggedRequests : OnFinish(r)

SpecLog == InitLog /\ [][NextLog]_vars

\* C26: the line passed to log() has at most 200 code units, and the
\* response snippet in it at most 100 and the ellipsis.
C26_LogLineCapped ==
    logged.pc = "logged" =>
        /\ Len(logged.line) <= 200
        /\ Len(logged.snippet) <= 100 + Len(Ellipsis)
        /\ Len(logged.req.response) <= 100 => logged.snippet = logged.req.response

\* a line with a response of 250 code units, cut to 100 and the ellipsis,
\* behind a long path and body, has been cut as a whole
C26_Witness ==
    /\ logged.pc = "logged"
    /\ Len(logged.req.response) = 250
    /\ Len(logged.snippet) = 100 + Len(Ellipsis)
    /\ Len(logged.req.path) > 100
    /\ Len(logged.line) < 200

-----------------------------------------------------------------------------
(* Requests to a server whose initial load resolved with a bundle that may
   lack the registerRoutes export: loadBackend resolves either way, so the
   main initialization function goes on and opens the listener *)

\* the pipeline as the main initialization function left it after an initial
\* load that imported a module of kind mod without throwing
PipelineAfterLoad(mode, mod) ==
    /\ alive = TRUE
    /\ env = mode
    /\ main = IF mode = "development" THEN "setup" ELSE "serving"
    /\ listening = TRUE
    /\ clock = 1
    /\ disk = {Outfile(1)}
    /\ stack = LoadBackendStack(<< >>, "loaded", mod, 1)
    /\ rebuilds = <<[NewRebuild(1) EXCEPT
                       !.pc = "done", !.mod = mod,
                       !.outcome = IF HasRegisterRoutes(mod) THEN "reloaded"
                                   ELSE "noExport"]>>
    /\ lastEvent = NoEvent
    /\ lastResp = NoResp

InitApi ==
    /\ \E mode \in {"development", "production"} : \E mod \in {"ok", "noexport"} :
         /\ PipelineAfterLoad(mode, mod)
         /\ IF mode = "development"
            THEN /\ currentViteServer = 1
                 /\ viteServers = <<"open">>
                 /\ appStack = UseVite(IndexLayers, 1)
                 /\ setups = <<[pc |-> "done", closing |-> 0, made |-> 1]>>
            ELSE /\ currentViteServer = 0
                 /\ viteServers = << >>
                 /\ appStack = UseStatic(IndexLayers)
                 /\ setups = << >>
    /\ HttpIdle
    /\ LibIdle
    /\ ScriptsIdle

SpecApi == InitApi /\ [][NextHttp]_vars

\* C27: with the listener open, no request below /api is answered by the
\* HTML fallback of the dev server, by express.static or by the index.html
\* fallback.
\* Violated: an empty or partial table calls next(), the error handler is
\* skipped for want of an error, and the layers app.use added after the
\* listener opened answer.
C27_ApiAnsweredByTableOrErrorHandler ==
    (listening /\ at # 0 /\ req.path # << >> /\ Head(req.path) = "api") =>
        res.by \notin {"fallback", "static", "sendFile"}

-----------------------------------------------------------------------------
(* retryOperation of server/lib/db.ts: one call, from its first invocation
   of the operation to its return or throw.  The operation is the caller's:
   each invocation settles, with a value or with an error. *)

\* what an operation throws.  A message is the sequence of its words, a
\* missing message the empty sequence; null stands for a thrown falsy value.
\* connection tells what the patterns and codes of isConnectionError make of
\* the error.
Errors ==
    { [null |-> TRUE,  message |-> << >>, code |-> "none", connection |-> FALSE],
      [null |-> FALSE, message |-> <<"Unique", "constraint", "failed">>,
       code |-> "P2002", connection |-> FALSE],
      [null |-> FALSE, message |-> <<"Record", "not", "found">>,
       code |-> "none", connection |-> FALSE],
      [null |-> FALSE, message |-> <<"Can't", "reach", "database", "server">>,
       code |-> "P1001", connection |-> TRUE],
      [null |-> FALSE, message |-> <<"read", "ECONNREFUSED">>,
       code |-> "none", connection |-> TRUE],
      [null |-> FALSE, message |-> << >>, code |-> "P1017", connection |-> TRUE],
      [null |-> FALSE, message |-> <<"Server", "has", "gone", "away">>,
       code |-> "none", connection |-> TRUE] }

\* message.toLowerCase(), word by word
ToLowerCase(message) ==
    [i \in 1..Len(message) |->
       CASE message[i] = "Unique" -> "unique"
         [] message[i] = "Record" -> "record"
         [] message[i] = "Can't" -> "can't"
         [] message[i] = "ECONNREFUSED" -> "econnrefused"
         [] message[i] = "Server" -> "server"
         [] OTHER -> message[i]]

\* message.includes(pattern), for patterns that are whole words
Includes(message, pattern) ==
    \E i \in 1..(Len(message) - Len(pattern) + 1) :
        SubSeq(message, i, i + Len(pattern) - 1) = pattern

\* every error taken for a connection error
IsConnectionErrorAlways(error) == TRUE

\* lines 13-37
IsConnectionError(error) ==
    IF error.null THEN FALSE
    ELSE LET errorMessage == ToLowerCase(error.message)
         IN  \/ \E pattern \in { <<"connection">>, <<"network">>, <<"timeout">>,
                                 <<"econnrefused">>, <<"enotfound">>, <<"etimedout">>,
                                 <<"can't", "reach", "database", "server">>,
                                 <<"server", "has", "gone", "away">>,
                                 <<"connection", "refused">>,
                                 <<"connection", "lost">> } :
                   Includes(errorMessage, pattern)
             \/ error.code \in {"P1001", "P1008", "P1017", "P1000", "P1011"}

\* Math.pow(2, attempt)
RECURSIVE Pow2(_)
Pow2(n) == IF n = 0 THEN 1 ELSE 2 * Pow2(n - 1)

\* the call throwing the error of its first invocation
ThrownFirst(errors) == errors[1]

\* throw error, line 64: the error just caught
Thrown(errors) == errors[Len(errors)]

\* retryOperation(operation, maxRetries, baseDelay) is called and runs to
\* its first await: the operation has been invoked once
RetryOperation(maxRetries, baseDelay) ==
    [pc |-> "invoking", maxRetries |-> maxRetries, baseDelay |-> baseDelay,
     attempt |-> 0, invocations |-> 1, errors |-> << >>, waits |-> << >>,
     result |-> "none", thrown |-> << >>]

InitRetry ==
    /\ PipelineAt("development")
    /\ ViteIdle
    /\ HttpIdle
    /\ ScriptsIdle
    /\ logged = Idle
    /\ themes = Idle
    /\ \E maxRetries \in 0..MaxRetries : \E baseDelay \in {250, 1000} :
         retry = RetryOperation(maxRetries, baseDelay)

\* await operation() resolves: return, line 50
OperationResolves ==
    /\ retry.pc = "invoking"
    /\ retry' = [retry EXCEPT !.pc = "returned", !.result = "value"]
    /\ UNCHANGED notRetry

\* await operation() rejects: the catch block, lines 51-82, up to the throw
\* or to the await of the timer
OperationRejects(error) ==
    /\ retry.pc = "invoking"
    /\ LET errors == Append(retry.errors, error)
       IN  retry' =
             IF ~IsConnectionError(error) \/ retry.attempt = retry.maxRetries
             THEN [retry EXCEPT !.pc = "threw", !.errors = errors,
                                !.thrown = <<Thrown(errors)>>]
             ELSE [retry EXCEPT !.pc = "waiting", !.errors = errors,
                                !.waits = Append(@, retry.baseDelay * Pow2(retry.attempt))]
    /\ UNCHANGED notRetry

\* the timer of line 82 fires: attempt++, the loop test of line 48, and the
\* next invocation, or throw lastError of line 86 when the loop is over
TimerFires ==
    /\ retry.pc = "waiting"
    /\ retry' =
         IF retry.attempt + 1 <= retry.maxRetries
         THEN [retry EXCEPT !.pc = "invoking", !.attempt = @ + 1,
                            !.invocations = @ + 1]
         ELSE [retry EXCEPT !.pc = "threw", !.attempt = @ + 1,
                            !.thrown = <<retry.errors[Len(retry.errors)]>>]
    /\ UNCHANGED notRetry

NextRetry ==
    \/ OperationResolves
    \/ \E error \in Errors : OperationRejects(error)
    \/ TimerFires

\* every invocation settles and every timer fires
SpecRetry == InitRetry /\ [][NextRetry]_vars /\ WF_vars(NextRetry)

RetryDone == retry.pc \in {"returned", "threw"}

\* C28: the call comes to its end, having invoked the operation at most
\* maxRetries + 1 times; it returns the value of a successful invocation at
\* once, every invocation before that one having failed, and otherwise
\* throws the error of its last invocation.
C28_RetryTerminates ==
    /\ [](/\ retry.invocations <= retry.maxRetries + 1
          /\ retry.pc = "invoking" => Len(retry.errors) = retry.invocations - 1
          /\ retry.pc = "returned" =>
                /\ retry.result = "value"
                /\ Len(retry.errors) = retry.invocations - 1
          /\ retry.pc = "threw" =>
                /\ Len(retry.errors) = retry.invocations
                /\ retry.thrown = <<retry.errors[retry.invocations]>>)
    /\ <>RetryDone
    /\ [][RetryDone => retry' = retry]_vars

\* with the arguments of the Prisma middleware, four invocations have failed
\* with connection errors and the call has thrown the fourth error
C28_Witness ==
    /\ retry.pc = "threw"
    /\ retry.maxRetries = 3
    /\ retry.baseDelay = 1000
    /\ retry.invocations = 4
    /\ \A i \in 1..4 : retry.errors[i].connection
    /\ retry.errors[4] # retry.errors[1]

\* C29: an error that is no connection error is thrown from the attempt it
\* occurs in, with no wait and no invocation after it; a connection error
\* before the last attempt is followed by a wait of baseDelay * 2^attempt,
\* and the wait by the next invocation.
C29_RetriesOnlyConnectionErrors ==
    [][ /\ (retry.pc = "invoking" /\ Len(retry'.errors) = Len(retry.errors) + 1) =>
            LET error == retry'.errors[Len(retry'.errors)]
            IN  /\ ~error.connection =>
                      /\ retry'.pc = "threw"
                      /\ retry'.thrown = <<error>>
                      /\ retry'.waits = retry.waits
                      /\ retry'.invocations = retry.invocations
                /\ (error.connection /\ retry.attempt < retry.maxRetries) =>
                      /\ retry'.pc = "waiting"
                      /\ retry'.waits =
                             Append(retry.waits, retry.baseDelay * Pow2(retry.attempt))
                      /\ retry'.invocations = retry.invocations
        /\ (retry.pc = "waiting" /\ retry' # retry) =>
              /\ retry'.pc = "invoking"
              /\ retry'.invocations = retry.invocations + 1
              /\ retry'.attempt = retry.attempt + 1
        /\ retry.pc = "threw" => retry' = retry ]_vars

\* two connection errors were waited for, 1000 and 2000 ms, and the third
\* invocation failed with an error that is none and was thrown at once
C29_Witness ==
    /\ retry.pc = "threw"
    /\ retry.invocations = 3
    /\ retry.maxRetries = 3
    /\ retry.waits = <<1000, 2000>>
    /\ ~retry.errors[3].connection
    /\ retry.thrown = <<retry.errors[3]>>

-----------------------------------------------------------------------------
(* The theme manager: one action is one run of the script with a set, add or
   delete command.  The state between runs is the directory client/themes
   and the theme import of client/index.css. *)

\* theme names as given on the command line, cut at the path separators
ThemeNames ==
    { <<"default">>, <<"violet">>, <<"custom">>,
      <<".", "default">>, <<".", "violet">> }

\* path.join(THEMES_DIR, `${themeName}.css`): join normalizes the path, so
\* a "." segment is dropped; the result names the file
ThemePath(themeName) == SelectSeq(themeName, LAMBDA seg : seg # ".")

InitTheme ==
    /\ PipelineAt("development")
    /\ ViteIdle
    /\ HttpIdle
    /\ ScriptsIdle
    /\ logged = Idle
    /\ retry = Idle
    /\ \E files \in { {<<"default">>}, {<<"default">>, <<"violet">>} } :
       \E active \in files :
         themes = [pc |-> "ready", files |-> files, import |-> active,
                   command |-> "none", arg |-> << >>, exit |-> 0]

\* set <theme-name>: setTheme, lines 657-693; the import line of index.css
\* is rewritten with the name as given
SetTheme(themeName) ==
    /\ themes.pc = "ready"
    /\ themes' = IF ThemePath(themeName) \notin themes.files
                 THEN [themes EXCEPT !.command = "set", !.arg = themeName, !.exit = 1]
                 ELSE [themes EXCEPT !.command = "set", !.arg = themeName, !.exit = 0,
                                     !.import = themeName]
    /\ UNCHANGED notThemes

\* add <theme-name> <json>: JSON.parse, then addOrUpdateTheme writes the file
AddOrUpdateTheme(themeName, valid) ==
    /\ themes.pc = "ready"
    /\ themes' = IF ~valid
                 THEN [themes EXCEPT !.command = "add", !.arg = themeName, !.exit = 1]
                 ELSE [themes EXCEPT !.command = "add", !.arg = themeName, !.exit = 0,
                                     !.files = @ \cup {ThemePath(themeName)}]
    /\ UNCHANGED notThemes

\* delete <theme-name>: deleteTheme, lines 979-1009; getCurrentTheme gives
\* the name as the import line of index.css has it
DeleteTheme(themeName) ==
    /\ themes.pc = "ready"
    /\ themes' = IF \/ themeName = <<"default">>
                    \/ ThemePath(themeName) \notin themes.files
                    \/ themes.import = themeName
                 THEN [themes EXCEPT !.command = "delete", !.arg = themeName, !.exit = 1]
                 ELSE [themes EXCEPT !.command = "delete", !.arg = themeName, !.exit = 0,
                                     !.files = @ \ {ThemePath(themeName)}]
    /\ UNCHANGED notThemes

NextTheme ==
    \/ \E themeName \in ThemeNames : SetTheme(themeName)
    \/ \E themeName \in ThemeNames : \E valid \in BOOLEAN :
           AddOrUpdateTheme(themeName, valid)
    \/ \E themeName \in ThemeNames : DeleteTheme(themeName)

SpecTheme == InitTheme /\ [][NextTheme]_vars

\* C30: after any run of set, add and delete commands the file of the theme
\* index.css imports and the file of the default theme exist.
\* Violated: the tests of delete compare the name as given, the deletion
\* acts on the path the name joins to.
C30_ActiveAndDefaultThemeExist ==
    themes.pc = "ready" =>
        /\ ThemePath(themes.import) \in themes.files
        /\ <<"default">> \in themes.files

====
